---- MODULE Spec2Model ----
(***************************************************************************)
(* Model of the "userspace" character device (userasync/devicefile/        *)
(* chardev.c): a kernel timer sets an atomic flag every period and wakes   *)
(* the wait queue; chardev_read polls the flag, sleeps on the wait queue   *)
(* in blocking mode, copies 4 bytes to the caller and clears the flag.     *)
(*                                                                         *)
(* Every C statement that touches shared state (counter, the timer, the    *)
(* wait queue) is one step, so that the timer callback, module init/exit   *)
(* and any number of chardev_read calls interleave as they do on an SMP    *)
(* kernel.  The kernel primitives the driver calls are modelled by what    *)
(* they do:                                                                *)
(*   wait_event_interruptible  - test; prepare_to_wait; test; signal test; *)
(*                               schedule; ...; finish_wait                *)
(*   wake_up_interruptible     - wakes every non-exclusive sleeper on the  *)
(*                               queue (autoremove_wake_function)          *)
(*   add_timer / del_timer     - put the timer on / take it off the list;  *)
(*                               del_timer does not wait for a running     *)
(*                               callback                                  *)
(***************************************************************************)
EXTENDS Integers, FiniteSets, Sequences, TLC

\* ---------------------------------------------------------------- bounds
NReaders == 2        \* threads that open the device and call into it
MaxFires == 3        \* mark-ready events counted by the history counter
MaxPayload == 3      \* payload returns counted by the history counter

\* ------------------------------------------------------ program constants
PayloadLen == 4      \* copy_to_user(buf, "test", 4); return 4
EAGAIN == 11
EFAULT == 14
EPERM == 1
ENOTTY == 25
ENOMEM == 12

Readers == 1..NReaders

\* control-channel commands a caller may issue; PROCESS_ID is the one the
\* companion client sends
Cmds == {"PROCESS_ID", "OTHER"}

VARIABLES
  counter,        \* atomic_t counter: the readiness flag
  timerPending,   \* read_timer is on the kernel's timer list
  tfPc,           \* position of the running timer_func, "idle" if none
  queue,          \* readers with a wait entry on the wait queue head
  initPc,         \* position of chardev_init
  exitPc,         \* position of chardev_exit
  initRet,        \* value returned by chardev_init (0 before it returns)
  held,           \* kernel resources currently held by the module
  d_status,       \* d->status
  chardev_major,  \* 0, or 1 for "some major number > 0"
  chardev_class,  \* "NULL" | "valid"
  d_device,       \* "uninit" | "valid" | "ERR" | "NULL"
  mode,           \* per reader: "closed" | "blocking" | "nonblock"
  pc,             \* per reader: position inside chardev_read, or "idle"
  result,         \* per reader: value its last call returned (0: none yet)
  sigp,           \* per reader: signal_pending(current)
  tstate,         \* per reader: "RUN" | "INT" (TASK_INTERRUPTIBLE)
  op,             \* per reader: its current/last call: "none" | "read" |
                  \*             "write" | "ioctl"
  seen,           \* per reader: the value its last atomic_read(&counter)
                  \*             returned
  fast,           \* history: the read under way started with the flag
                  \*          ready and has been the only call under way
  obs,            \* history: the read saw counter != 0 and no mark-ready
                  \*          has happened since
  taken,          \* history: a read returned the payload since the last
                  \*          mark-ready
  nMarkReady,     \* history: number of times the producer set the flag
  nPayload,       \* history: number of reads that returned the payload
  sinceFire       \* history: number of reads that returned the payload
                  \*          since the producer last set the flag

devVars == <<counter, timerPending, tfPc, queue>>
modVars == <<initPc, exitPc, initRet, held, d_status, chardev_major,
             chardev_class, d_device>>
rdVars == <<mode, pc, result, sigp, tstate, op, seen, fast, obs>>
histVars == <<taken, nMarkReady, nPayload, sinceFire>>
vars == <<devVars, modVars, rdVars, histVars>>

\* ------------------------------------------------------------------ Init
\* Module image loaded, chardev_init not yet run: globals are zero.
Init ==
  /\ counter = 0
  /\ timerPending = FALSE
  /\ tfPc = "idle"
  /\ queue = {}
  /\ initPc = "kmalloc"
  /\ exitPc = "idle"
  /\ initRet = 0
  /\ held = {}
  /\ d_status = 0
  /\ chardev_major = 0
  /\ chardev_class = "NULL"
  /\ d_device = "uninit"
  /\ mode = [r \in Readers |-> "closed"]
  /\ pc = [r \in Readers |-> "idle"]
  /\ result = [r \in Readers |-> 0]
  /\ sigp = [r \in Readers |-> FALSE]
  /\ tstate = [r \in Readers |-> "RUN"]
  /\ op = [r \in Readers |-> "none"]
  /\ seen = [r \in Readers |-> 0]
  /\ fast = [r \in Readers |-> FALSE]
  /\ obs = [r \in Readers |-> FALSE]
  /\ taken = FALSE
  /\ nMarkReady = 0
  /\ nPayload = 0
  /\ sinceFire = 0

\* ----------------------------------------------------------- chardev_init
\* d = kmalloc(...); d->status = 0; d->device keeps what kmalloc left there.
InitKmalloc ==
  /\ initPc = "kmalloc"
  /\ \E ok \in BOOLEAN :
       IF ok
       THEN /\ held' = held \cup {"d"}
            /\ d_status' = 0
            /\ initPc' = "region"
            /\ initRet' = initRet
       ELSE /\ held' = held
            /\ d_status' = d_status
            /\ initPc' = "failed"
            /\ initRet' = -ENOMEM
  /\ UNCHANGED <<exitPc, chardev_major, chardev_class, d_device>>
  /\ UNCHANGED <<devVars, rdVars, histVars>>

\* chardev_major is 0, so the alloc_chrdev_region branch runs.  On failure
\* dev was never written and chardev_major = MAJOR(dev) reads an
\* uninitialised value.  The negative ret of a failed kernel call is
\* represented by -ENOMEM.
InitRegion ==
  /\ initPc = "region"
  /\ \E ok \in BOOLEAN, garbage \in {0, 1} :
       IF ok
       THEN /\ held' = held \cup {"region"}
            /\ chardev_major' = 1
            /\ initPc' = "class"
            /\ initRet' = initRet
       ELSE /\ held' = held
            /\ chardev_major' = garbage
            /\ initPc' = "err1"
            /\ initRet' = -ENOMEM
  /\ UNCHANGED <<exitPc, d_status, chardev_class, d_device>>
  /\ UNCHANGED <<devVars, rdVars, histVars>>

InitClass ==
  /\ initPc = "class"
  /\ \E ok \in BOOLEAN :
       IF ok
       THEN /\ held' = held \cup {"class"}
            /\ chardev_class' = "valid"
            /\ initPc' = "device"
            /\ initRet' = initRet
       ELSE /\ held' = held
            /\ chardev_class' = "NULL"
            /\ initPc' = "err2"
            /\ initRet' = -ENOMEM
  /\ UNCHANGED <<exitPc, d_status, chardev_major, d_device>>
  /\ UNCHANGED <<devVars, rdVars, histVars>>

InitDevice ==
  /\ initPc = "device"
  /\ \E ok \in BOOLEAN :
       IF ok
       THEN /\ held' = held \cup {"device"}
            /\ d_device' = "valid"
            /\ initPc' = "cdev_add"
            /\ initRet' = initRet
       ELSE /\ held' = held
            /\ d_device' = "ERR"
            /\ initPc' = "err3"
            /\ initRet' = -ENOMEM
  /\ UNCHANGED <<exitPc, d_status, chardev_major, chardev_class>>
  /\ UNCHANGED <<devVars, rdVars, histVars>>

\* cdev_add makes the device live: open() succeeds from here on.
InitCdevAdd ==
  /\ initPc = "cdev_add"
  /\ \E ok \in BOOLEAN :
       IF ok
       THEN /\ held' = held \cup {"cdev"}
            /\ d_status' = 1
            /\ initPc' = "set_counter"
            /\ initRet' = initRet
       ELSE /\ held' = held
            /\ d_status' = 0
            /\ initPc' = "err4"
            /\ initRet' = -ENOMEM
  /\ UNCHANGED <<exitPc, chardev_major, chardev_class, d_device>>
  /\ UNCHANGED <<devVars, rdVars, histVars>>

\* The producer's effect on the history: a new readiness event.
MarkReadyHist(h) ==
  /\ obs' = [r \in Readers |-> FALSE]
  /\ taken' = FALSE
  /\ nMarkReady' = IF h THEN nMarkReady + 1 ELSE nMarkReady
  /\ sinceFire' = 0

\* variant: the flag is initialised empty
InitSetCounter_Empty(h) ==
  /\ initPc = "set_counter"
  /\ counter' = 0
  /\ initPc' = "add_timer"
  /\ MarkReadyHist(h)
  /\ UNCHANGED <<timerPending, tfPc, queue, nPayload>>
  /\ UNCHANGED <<exitPc, initRet, held, d_status, chardev_major,
                 chardev_class, d_device>>
  /\ UNCHANGED <<mode, pc, result, sigp, tstate, op, seen, fast>>

InitSetCounter(h) ==
  /\ initPc = "set_counter"
  /\ counter' = 1
  /\ initPc' = "add_timer"
  /\ MarkReadyHist(h)
  /\ UNCHANGED <<timerPending, tfPc, queue, nPayload>>
  /\ UNCHANGED <<exitPc, initRet, held, d_status, chardev_major,
                 chardev_class, d_device>>
  /\ UNCHANGED <<mode, pc, result, sigp, tstate, op, seen, fast>>

InitAddTimer ==
  /\ initPc = "add_timer"
  /\ timerPending' = TRUE
  /\ initPc' = "done"
  /\ UNCHANGED <<counter, tfPc, queue>>
  /\ UNCHANGED <<exitPc, initRet, held, d_status, chardev_major,
                 chardev_class, d_device>>
  /\ UNCHANGED <<rdVars, histVars>>

\* variant: the err1 label returns without kfree(d)
InitUnwind_Leak ==
  /\ initPc \in {"err4", "err3", "err2", "err1"}
  /\ held' = CASE initPc = "err4" -> held \ {"device"}
               [] initPc = "err3" -> held \ {"class"}
               [] initPc = "err2" -> held \ {"region"}
               [] initPc = "err1" -> held
  /\ initPc' = CASE initPc = "err4" -> "err3"
                 [] initPc = "err3" -> "err2"
                 [] initPc = "err2" -> "err1"
                 [] initPc = "err1" -> "failed"
  /\ UNCHANGED <<exitPc, initRet, d_status, chardev_major, chardev_class,
                 d_device>>
  /\ UNCHANGED <<devVars, rdVars, histVars>>

\* err4: device_destroy; err3: class_destroy; err2: unregister_chrdev_region;
\* err1: kfree(d)
InitUnwind ==
  /\ initPc \in {"err4", "err3", "err2", "err1"}
  /\ held' = CASE initPc = "err4" -> held \ {"device"}
               [] initPc = "err3" -> held \ {"class"}
               [] initPc = "err2" -> held \ {"region"}
               [] initPc = "err1" -> held \ {"d"}
  /\ initPc' = CASE initPc = "err4" -> "err3"
                 [] initPc = "err3" -> "err2"
                 [] initPc = "err2" -> "err1"
                 [] initPc = "err1" -> "failed"
  /\ UNCHANGED <<exitPc, initRet, d_status, chardev_major, chardev_class,
                 d_device>>
  /\ UNCHANGED <<devVars, rdVars, histVars>>

\* ------------------------------------------------------------- timer_func
\* The kernel takes an expired timer off the list and calls its function.
TimerExpire(h) ==
  /\ timerPending
  /\ tfPc = "idle"
  /\ h => nMarkReady < MaxFires
  /\ timerPending' = FALSE
  /\ tfPc' = "set"
  /\ UNCHANGED <<counter, queue>>
  /\ UNCHANGED <<modVars, rdVars, histVars>>

\* variant: every fire adds one to the counter, so that events queue up
TimerSet_Counts(h) ==
  /\ tfPc = "set"
  /\ counter' = counter + 1
  /\ tfPc' = "arm"
  /\ MarkReadyHist(h)
  /\ UNCHANGED <<timerPending, queue, nPayload>>
  /\ UNCHANGED <<mode, pc, result, sigp, tstate, op, seen, fast>>
  /\ UNCHANGED modVars

\* atomic_set(&counter, 1)
TimerSet(h) ==
  /\ tfPc = "set"
  /\ counter' = 1
  /\ tfPc' = "arm"
  /\ MarkReadyHist(h)
  /\ UNCHANGED <<timerPending, queue, nPayload>>
  /\ UNCHANGED <<mode, pc, result, sigp, tstate, op, seen, fast>>
  /\ UNCHANGED modVars

\* variant: the timer is armed again only when a reader is waiting
TimerArm_OnlyIfWaiters ==
  /\ tfPc = "arm"
  /\ timerPending' = (queue # {})
  /\ tfPc' = "wake"
  /\ UNCHANGED <<counter, queue>>
  /\ UNCHANGED <<modVars, rdVars, histVars>>

\* read_timer.expires = jiffies + HZ*5; add_timer(&read_timer)
TimerArm ==
  /\ tfPc = "arm"
  /\ timerPending' = TRUE
  /\ tfPc' = "wake"
  /\ UNCHANGED <<counter, queue>>
  /\ UNCHANGED <<modVars, rdVars, histVars>>

\* The readers a wake_up_interruptible(&queue) wakes: wait_event entries are
\* non-exclusive, so every task sleeping in TASK_INTERRUPTIBLE is woken and
\* its entry removed; entries of tasks that are already running stay.
\* variant: the wake-up is left out
Woken_None(q, ts) == {}

Woken(q, ts) == {r \in q : ts[r] = "INT"}

TimerWake ==
  /\ tfPc = "wake"
  /\ queue' = queue \ Woken(queue, tstate)
  /\ tstate' = [r \in Readers |->
                  IF r \in Woken(queue, tstate) THEN "RUN" ELSE tstate[r]]
  /\ tfPc' = "idle"
  /\ UNCHANGED <<counter, timerPending>>
  /\ UNCHANGED <<mode, pc, result, sigp, op, seen, fast, obs>>
  /\ UNCHANGED <<modVars, histVars>>

\* ----------------------------------------------------------- chardev_exit
\* rmmod.  The file_operations carry .owner = THIS_MODULE, so an ordinary
\* unload waits for every session to be closed; a forced unload (rmmod -f)
\* runs chardev_exit whatever the readers are doing, and that is the run
\* modelled here.
\* del_timer(&read_timer) takes a pending timer off the list; a callback
\* that is already running is not waited for.
ExitDelTimer ==
  /\ initPc = "done"
  /\ exitPc = "idle"
  /\ timerPending' = FALSE
  /\ exitPc' = "release"
  /\ UNCHANGED <<counter, tfPc, queue>>
  /\ UNCHANGED <<initPc, initRet, held, d_status, chardev_major,
                 chardev_class, d_device>>
  /\ UNCHANGED <<rdVars, histVars>>

\* The release steps of chardev_exit that run when d->status, d->device,
\* chardev_major and chardev_class have the given values: cdev_del,
\* device_destroy, unregister_chrdev_region, class_destroy, each behind its
\* guard in the code.  There is no kfree(d).
ExitSteps(st, dv, mj, cl) ==
  (IF st = 1 THEN {"cdev"} ELSE {})
    \cup (IF dv = "valid" THEN {"device"} ELSE {})
    \cup (IF mj > 0 THEN {"region"} ELSE {})
    \cup (IF cl = "valid" THEN {"class"} ELSE {})

ExitHeld ==
  held \ ExitSteps(d_status, d_device, chardev_major, chardev_class)

ExitRelease ==
  /\ exitPc = "release"
  /\ held' = ExitHeld
  /\ d_device' = IF d_device = "valid" THEN "NULL" ELSE d_device
  /\ chardev_class' = "NULL"
  /\ exitPc' = "done"
  /\ UNCHANGED <<initPc, initRet, d_status, chardev_major>>
  /\ UNCHANGED <<devVars, rdVars, histVars>>

\* ------------------------------------------------ chardev_open / chardev_rel
\* open() reaches chardev_open once cdev_add has registered the device.  The
\* session's mode is filp->f_flags & O_NONBLOCK.
chardev_open(r) ==
  /\ "cdev" \in held
  /\ mode[r] = "closed"
  /\ \E m \in {"blocking", "nonblock"} : mode' = [mode EXCEPT ![r] = m]
  /\ UNCHANGED <<pc, result, sigp, tstate, op, seen, fast, obs>>
  /\ UNCHANGED <<devVars, modVars, histVars>>

\* variant: closing a session empties the flag
chardev_rel_ClearsFlag(r) ==
  /\ mode[r] # "closed"
  /\ pc[r] = "idle"
  /\ mode' = [mode EXCEPT ![r] = "closed"]
  /\ op' = [op EXCEPT ![r] = "none"]
  /\ result' = [result EXCEPT ![r] = 0]
  /\ counter' = 0
  /\ UNCHANGED <<pc, sigp, tstate, seen, fast, obs>>
  /\ UNCHANGED <<timerPending, tfPc, queue>>
  /\ UNCHANGED <<modVars, histVars>>

\* release() runs when the last reference to the file goes, so not while a
\* call on the session is under way.
chardev_rel(r) ==
  /\ mode[r] # "closed"
  /\ pc[r] = "idle"
  /\ mode' = [mode EXCEPT ![r] = "closed"]
  /\ op' = [op EXCEPT ![r] = "none"]
  /\ result' = [result EXCEPT ![r] = 0]
  /\ UNCHANGED <<pc, sigp, tstate, seen, fast, obs>>
  /\ UNCHANGED <<devVars, modVars, histVars>>

\* A session can issue a call while it is open and the module text is there.
CanCall(r) == mode[r] # "closed" /\ pc[r] = "idle" /\ exitPc # "done"

\* --------------------------------------------- chardev_write / chardev_ioctl
\* variant: the write is accepted as if the payload had been stored
chardev_write_accepts == PayloadLen

chardev_write == -EPERM

Write(r) ==
  /\ CanCall(r)
  /\ op' = [op EXCEPT ![r] = "write"]
  /\ result' = [result EXCEPT ![r] = chardev_write]
  /\ UNCHANGED <<mode, pc, sigp, tstate, seen, fast, obs>>
  /\ UNCHANGED <<devVars, modVars, histVars>>

\* variant: the registration command is acknowledged
chardev_ioctl_registers(cmd) == IF cmd = "PROCESS_ID" THEN 0 ELSE -ENOTTY

chardev_ioctl(cmd) == -ENOTTY

Ioctl(r) ==
  /\ CanCall(r)
  /\ \E cmd \in Cmds :
       /\ op' = [op EXCEPT ![r] = "ioctl"]
       /\ result' = [result EXCEPT ![r] = chardev_ioctl(cmd)]
  /\ UNCHANGED <<mode, pc, sigp, tstate, seen, fast, obs>>
  /\ UNCHANGED <<devVars, modVars, histVars>>

\* ------------------------------------------------------------ chardev_read
\* Return from a call: back in user space the pending signal is handled.
Ret(r, v) ==
  /\ pc' = [pc EXCEPT ![r] = "idle"]
  /\ result' = [result EXCEPT ![r] = v]
  /\ sigp' = [sigp EXCEPT ![r] = FALSE]
  /\ seen' = [seen EXCEPT ![r] = 0]
  /\ fast' = [fast EXCEPT ![r] = FALSE]
  /\ obs' = [obs EXCEPT ![r] = FALSE]

\* read(fd, buf, count) enters chardev_read.
ReadStart(r, h) ==
  /\ CanCall(r)
  /\ h => nPayload < MaxPayload
  /\ pc' = [pc EXCEPT ![r] = "check"]
  /\ op' = [op EXCEPT ![r] = "read"]
  /\ result' = [result EXCEPT ![r] = 0]
  /\ fast' = [q \in Readers |->
                /\ q = r
                /\ counter = 1
                /\ \A o \in Readers : pc[o] = "idle"]
  /\ UNCHANGED <<mode, sigp, tstate, seen, obs>>
  /\ UNCHANGED <<devVars, modVars, histVars>>

\* variant: the loop condition is inverted
ReadCheck_Inverted(r) ==
  /\ pc[r] = "check"
  /\ pc' = [pc EXCEPT ![r] = IF counter = 0 THEN "copy" ELSE "nonblock"]
  /\ seen' = [seen EXCEPT ![r] = counter]
  /\ obs' = [obs EXCEPT ![r] = (counter # 0)]
  /\ UNCHANGED <<mode, result, sigp, tstate, op, fast>>
  /\ UNCHANGED <<devVars, modVars, histVars>>

\* while (atomic_read(&counter) == 0)
ReadCheck(r) ==
  /\ pc[r] = "check"
  /\ pc' = [pc EXCEPT ![r] = IF counter = 0 THEN "nonblock" ELSE "copy"]
  /\ seen' = [seen EXCEPT ![r] = counter]
  /\ obs' = [obs EXCEPT ![r] = (counter # 0)]
  /\ UNCHANGED <<mode, result, sigp, tstate, op, fast>>
  /\ UNCHANGED <<devVars, modVars, histVars>>

\* variant: O_NONBLOCK is not looked at
ReadNonblock_IgnoresFlag(r) ==
  /\ pc[r] = "nonblock"
  /\ pc' = [pc EXCEPT ![r] = "waitcond"]
  /\ UNCHANGED <<mode, result, sigp, tstate, op, seen, fast, obs>>
  /\ UNCHANGED <<devVars, modVars, histVars>>

\* if (filp->f_flags & O_NONBLOCK) return -EAGAIN;
ReadNonblock(r) ==
  /\ pc[r] = "nonblock"
  /\ IF mode[r] = "nonblock"
     THEN Ret(r, -EAGAIN)
     ELSE /\ pc' = [pc EXCEPT ![r] = "waitcond"]
          /\ UNCHANGED <<result, sigp, seen, fast, obs>>
  /\ UNCHANGED <<mode, tstate, op>>
  /\ UNCHANGED <<devVars, modVars, histVars>>

\* wait_event_interruptible(queue, counter == 1): the first test of the
\* condition; when it holds the macro returns without touching the queue.
ReadWaitCond(r) ==
  /\ pc[r] = "waitcond"
  /\ pc' = [pc EXCEPT ![r] = IF counter = 1 THEN "check" ELSE "prepare"]
  /\ seen' = [seen EXCEPT ![r] = counter]
  /\ UNCHANGED <<mode, result, sigp, tstate, op, fast, obs>>
  /\ UNCHANGED <<devVars, modVars, histVars>>

\* prepare_to_wait(&queue, &wait, TASK_INTERRUPTIBLE)
ReadPrepare(r) ==
  /\ pc[r] = "prepare"
  /\ queue' = queue \cup {r}
  /\ tstate' = [tstate EXCEPT ![r] = "INT"]
  /\ pc' = [pc EXCEPT ![r] = "recheck"]
  /\ UNCHANGED <<counter, timerPending, tfPc>>
  /\ UNCHANGED <<mode, result, sigp, op, seen, fast, obs>>
  /\ UNCHANGED <<modVars, histVars>>

\* if (condition) break; if (!signal_pending(current)) { schedule(); continue; }
\* ret = -ERESTARTSYS; break;
ReadRecheck(r) ==
  /\ pc[r] = "recheck"
  /\ pc' = [pc EXCEPT ![r] =
              IF counter = 1 \/ sigp[r] THEN "finish" ELSE "sched"]
  /\ seen' = [seen EXCEPT ![r] = counter]
  /\ UNCHANGED <<mode, result, sigp, tstate, op, fast, obs>>
  /\ UNCHANGED <<devVars, modVars, histVars>>

\* schedule() returns once the task is runnable again: after a wake-up or on
\* a signal.
ReadSchedule(r) ==
  /\ pc[r] = "sched"
  /\ tstate[r] = "RUN"
  /\ pc' = [pc EXCEPT ![r] = "prepare"]
  /\ UNCHANGED <<mode, result, sigp, tstate, op, seen, fast, obs>>
  /\ UNCHANGED <<devVars, modVars, histVars>>

\* variant: an if in place of the while, the read goes on after one wait
ReadFinish_NoLoop(r) ==
  /\ pc[r] = "finish"
  /\ queue' = queue \ {r}
  /\ tstate' = [tstate EXCEPT ![r] = "RUN"]
  /\ pc' = [pc EXCEPT ![r] = "copy"]
  /\ UNCHANGED <<counter, timerPending, tfPc>>
  /\ UNCHANGED <<mode, result, sigp, op, seen, fast, obs>>
  /\ UNCHANGED <<modVars, histVars>>

\* finish_wait(&queue, &wait); the value of wait_event_interruptible is
\* dropped and the while loop tests the counter again.
ReadFinish(r) ==
  /\ pc[r] = "finish"
  /\ queue' = queue \ {r}
  /\ tstate' = [tstate EXCEPT ![r] = "RUN"]
  /\ pc' = [pc EXCEPT ![r] = "check"]
  /\ UNCHANGED <<counter, timerPending, tfPc>>
  /\ UNCHANGED <<mode, result, sigp, op, seen, fast, obs>>
  /\ UNCHANGED <<modVars, histVars>>

\* variant: the flag is cleared before the copy, also when the copy faults
ReadCopy_ClearsOnFault(r) ==
  /\ pc[r] = "copy"
  /\ \E writable \in BOOLEAN :
       IF writable
       THEN /\ pc' = [pc EXCEPT ![r] = "clear"]
            /\ UNCHANGED <<result, sigp, seen, fast, obs>>
       ELSE Ret(r, -EFAULT)
  /\ counter' = 0
  /\ UNCHANGED <<mode, tstate, op>>
  /\ UNCHANGED <<timerPending, tfPc, queue>>
  /\ UNCHANGED <<modVars, histVars>>

\* if (copy_to_user(buf, "test", 4)) return -EFAULT;
\* copy_to_user faults when the caller's buffer is not writable.
ReadCopy(r) ==
  /\ pc[r] = "copy"
  /\ \E writable \in BOOLEAN :
       IF writable
       THEN /\ pc' = [pc EXCEPT ![r] = "clear"]
            /\ UNCHANGED <<result, sigp, seen, fast, obs>>
       ELSE Ret(r, -EFAULT)
  /\ UNCHANGED <<mode, tstate, op>>
  /\ UNCHANGED <<devVars, modVars, histVars>>

\* atomic_set(&counter, 0); return 4;  Nothing shared is touched between
\* the store and the return, so the two are one step.
ReadClear(r, h) ==
  /\ pc[r] = "clear"
  /\ counter' = 0
  /\ Ret(r, PayloadLen)
  /\ taken' = (taken \/ obs[r])
  /\ nPayload' = IF h THEN nPayload + 1 ELSE nPayload
  /\ sinceFire' = IF h THEN sinceFire + 1 ELSE sinceFire
  /\ UNCHANGED <<timerPending, tfPc, queue, nMarkReady>>
  /\ UNCHANGED <<mode, tstate, op>>
  /\ UNCHANGED modVars

\* A signal is sent to a thread that is inside chardev_read: it becomes
\* pending and a task sleeping interruptibly is made runnable.
Signal(r) ==
  /\ pc[r] # "idle"
  /\ ~sigp[r]
  /\ sigp' = [sigp EXCEPT ![r] = TRUE]
  /\ tstate' = [tstate EXCEPT ![r] = "RUN"]
  /\ UNCHANGED <<mode, pc, result, op, seen, fast, obs>>
  /\ UNCHANGED <<devVars, modVars, histVars>>

\* ------------------------------------------------------------------ Next
ModuleInit(h) ==
  \/ InitKmalloc
  \/ InitRegion
  \/ InitClass
  \/ InitDevice
  \/ InitCdevAdd
  \/ InitSetCounter(h)
  \/ InitAddTimer
  \/ InitUnwind

ModuleExit ==
  \/ ExitDelTimer
  \/ ExitRelease

Timer(h) ==
  \/ TimerExpire(h)
  \/ TimerSet(h)
  \/ TimerArm
  \/ TimerWake

\* the steps of a chardev_read that is under way
ReadStep(r, h) ==
  \/ ReadCheck(r)
  \/ ReadNonblock(r)
  \/ ReadWaitCond(r)
  \/ ReadPrepare(r)
  \/ ReadRecheck(r)
  \/ ReadSchedule(r)
  \/ ReadFinish(r)
  \/ ReadCopy(r)
  \/ ReadClear(r, h)

Session(r, h) ==
  \/ chardev_open(r)
  \/ chardev_rel(r)
  \/ ReadStart(r, h)
  \/ ReadStep(r, h)
  \/ Write(r)
  \/ Ioctl(r)
  \/ Signal(r)

\* The device with its readers; the two history counters stand still.
Next ==
  \/ ModuleInit(FALSE)
  \/ ModuleExit
  \/ Timer(FALSE)
  \/ \E r \in Readers : Session(r, FALSE)

Spec == Init /\ [][Next]_vars

\* The same device with mark-ready events and payload returns counted, up to
\* MaxFires and MaxPayload.
CountNext ==
  \/ ModuleInit(TRUE)
  \/ ModuleExit
  \/ Timer(TRUE)
  \/ \E r \in Readers : Session(r, TRUE)

CountSpec == Init /\ [][CountNext]_vars

\* One reader thread, the module never unloaded.
Solo == CHOOSE r \in Readers : TRUE

LiveNext ==
  \/ ModuleInit(FALSE)
  \/ Timer(FALSE)
  \/ Session(Solo, FALSE)

\* chardev_init runs to its end, an armed timer expires and its callback
\* runs to its end, and a thread inside chardev_read keeps being scheduled
\* while it is runnable.  Nothing obliges a caller to start a call.
LiveSpec ==
  /\ Init
  /\ [][LiveNext]_vars
  /\ WF_vars(ModuleInit(FALSE))
  /\ WF_vars(Timer(FALSE))
  /\ WF_vars(ReadStep(Solo, FALSE))

\* The single reader with the history counters running, opening the device
\* once chardev_init has returned.
SeqNext ==
  \/ ModuleInit(TRUE)
  \/ Timer(TRUE)
  \/ (initPc = "done" /\ Session(Solo, TRUE))

SeqSpec == Init /\ [][SeqNext]_vars

\* One reader thread and the whole life of the module, unload included.
LifeNext ==
  \/ LiveNext
  \/ ModuleExit

\* Fairness as in LiveSpec; nothing obliges anybody to unload the module.
LifeSpec ==
  /\ Init
  /\ [][LifeNext]_vars
  /\ WF_vars(ModuleInit(FALSE))
  /\ WF_vars(Timer(FALSE))
  /\ WF_vars(ReadStep(Solo, FALSE))

\* ================================================================ claims
\* a reader asleep on the wait queue
Parked(r) == pc[r] = "sched" /\ tstate[r] = "INT"

\* positions inside wait_event_interruptible
WaitPcs == {"waitcond", "prepare", "recheck", "sched", "finish"}

\* this step is reader r returning from chardev_read
Returns(r) == op[r] = "read" /\ pc[r] # "idle" /\ pc'[r] = "idle"

\* this step is reader r returning the payload
ReturnsPayload(r) == pc[r] = "clear" /\ pc'[r] = "idle"

\* the producer is stopped for good: the timer is neither on the list nor
\* running
TimerDead == ~timerPending /\ tfPc = "idle"

\* C1: the number of reads that have returned the payload never exceeds the
\* number of mark-ready events (the set at device start and every timer
\* fire) so far.
C1_PayloadsWithinMarkReady == nPayload <= nMarkReady

\* C2: of the readers that saw the flag ready with no mark-ready in between,
\* only one returns the payload: a reader whose observation is still
\* current does not return the payload once another such reader has.
C2_OneWinnerPerEvent ==
  [][\A r \in Readers : (ReturnsPayload(r) /\ obs[r]) => ~taken]_vars

\* C3: once teardown has completed and the producer is stopped, no reader
\* is left asleep on the wait queue.
C3_TeardownUnblocksReaders ==
  (exitPc = "done" /\ TimerDead) => \A r \in Readers : ~Parked(r)

\* C4: a read on a non-blocking session is never on the wait queue nor
\* inside the wait, and once it has seen the flag empty its next step
\* returns -EAGAIN and leaves the flag, the timer and the wait queue as
\* they were.
C4_NonblockNeverWaits ==
  \A r \in Readers :
    mode[r] = "nonblock" => (r \notin queue /\ pc[r] \notin WaitPcs)

C4_NonblockStep ==
  \A r \in Readers :
    (mode[r] = "nonblock" /\ pc[r] = "nonblock" /\ pc'[r] # pc[r])
      => /\ seen[r] = 0
         /\ pc'[r] = "idle"
         /\ result'[r] = -EAGAIN
         /\ UNCHANGED devVars

C4_NonblockingReadWouldBlock ==
  []C4_NonblockNeverWaits /\ [][C4_NonblockStep]_vars

C4_Witness ==
  \E r \in Readers :
    /\ mode[r] = "nonblock"
    /\ op[r] = "read"
    /\ pc[r] = "idle"
    /\ result[r] = -EAGAIN

\* C5 as stated: a blocking read that starts with the flag ready while no
\* other call is under way never enters the wait, returns 4, and the flag
\* is empty when it returns.
C5_FastNeverWaits ==
  \A r \in Readers :
    (fast[r] /\ mode[r] = "blocking")
      => (r \notin queue /\ pc[r] \in {"check", "copy", "clear"})

C5_FastReturnsPayload ==
  \A r \in Readers :
    (fast[r] /\ mode[r] = "blocking" /\ Returns(r))
      => (result'[r] = PayloadLen /\ counter' = 0)

C5_FastReadAsStated ==
  []C5_FastNeverWaits /\ [][C5_FastReturnsPayload]_vars

\* C5 amended: such a read never enters the wait and returns 4 with the flag
\* empty, or, when copy_to_user faults on the caller's buffer, returns
\* -EFAULT with the flag left ready.
C5_FastReturn ==
  \A r \in Readers :
    (fast[r] /\ mode[r] = "blocking" /\ Returns(r))
      => \/ (result'[r] = PayloadLen /\ counter' = 0)
         \/ (result'[r] = -EFAULT /\ counter' = 1 /\ counter = 1)

C5_FastRead ==
  []C5_FastNeverWaits /\ [][C5_FastReturn]_vars

C5_Witness ==
  \E r \in Readers : fast[r] /\ mode[r] = "blocking" /\ pc[r] = "clear"

\* C6: a read on a blocking session returns only when the last value it
\* read from the flag was ready, and never with -EAGAIN.
C6_BlockingReturnStep ==
  \A r \in Readers :
    (mode[r] = "blocking" /\ Returns(r))
      => /\ seen[r] = 1
         /\ result'[r] # -EAGAIN
         /\ result'[r] \in {PayloadLen, -EFAULT}

C6_BlockingReturnsOnlyWhenReady == [][C6_BlockingReturnStep]_vars

\* a blocking read whose wait was ended by a signal while the flag is empty
C6_Witness ==
  \E r \in Readers :
    mode[r] = "blocking" /\ pc[r] = "finish" /\ sigp[r] /\ seen[r] = 0

\* this step changes what reader r's last call was, or what it returned
CallDone(r, o) ==
  op'[r] = o /\ <<op[r], result[r]>> # <<op'[r], result'[r]>>

\* everything but reader r's op and result
Frame == <<devVars, modVars, histVars, mode, pc, sigp, tstate, seen, fast,
           obs>>

\* C9: every chardev_write returns -EPERM, on blocking and non-blocking
\* sessions, and changes nothing of the device.
C9_WriteResult ==
  \A r \in Readers : op[r] = "write" => result[r] = -EPERM

C9_WriteStep ==
  \A r \in Readers :
    CallDone(r, "write") => (result'[r] = -EPERM /\ UNCHANGED Frame)

C9_WriteNotPermitted == []C9_WriteResult /\ [][C9_WriteStep]_vars

\* a write was rejected while another reader sleeps on the wait queue
C9_Witness ==
  \E r, q \in Readers :
    op[r] = "write" /\ result[r] = -EPERM /\ Parked(q)

\* C10: every chardev_ioctl, whatever the command, returns -ENOTTY and
\* changes nothing of the device.
C10_IoctlResult ==
  \A r \in Readers : op[r] = "ioctl" => result[r] = -ENOTTY

C10_IoctlStep ==
  \A r \in Readers :
    CallDone(r, "ioctl") => (result'[r] = -ENOTTY /\ UNCHANGED Frame)

SoloBlockedRead == mode[Solo] = "blocking" /\ pc[Solo] # "idle"

\* C7 as stated: with the producer running and a single reader, every read
\* on a blocking session eventually returns the payload.
C7_EveryReadReturnsPayload ==
  SoloBlockedRead ~> (pc[Solo] = "idle" /\ result[Solo] = PayloadLen)

\* C7 amended: with the producer running and a single reader, every read on
\* a blocking session eventually returns: the payload, or -EFAULT when
\* copy_to_user faults on the caller's buffer.  A reader that saw the flag
\* empty and sleeps is woken by the timer.
C7_NoLostWakeup ==
  SoloBlockedRead
    ~> (pc[Solo] = "idle" /\ result[Solo] \in {PayloadLen, -EFAULT})

\* the sleeping reader has been woken by the timer after it set the flag
C7_Witness ==
  /\ mode[Solo] = "blocking"
  /\ pc[Solo] = "sched"
  /\ tstate[Solo] = "RUN"
  /\ ~sigp[Solo]
  /\ counter = 1

\* C8: one reader, from device start.  Between two sets of the flag by the
\* producer the reader gets the payload at most once.  Until it has, the
\* flag is ready: the first read after start, and the first after each
\* timer fire, finds it ready and returns 4 (given a writable buffer).  Once
\* it has, the flag is empty until the next fire: a read that finds it so
\* returns only on a non-blocking session, with -EAGAIN.
C8_FlagFollowsEvents ==
  /\ sinceFire <= 1
  /\ nPayload <= nMarkReady
  /\ nMarkReady >= 1 => (counter = 1 <=> sinceFire = 0)

C8_ReturnStep ==
  Returns(Solo) =>
    /\ (seen[Solo] = 1 /\ result'[Solo] # -EFAULT)
         => result'[Solo] = PayloadLen
    /\ seen[Solo] = 0
         => (mode[Solo] = "nonblock" /\ result'[Solo] = -EAGAIN)

C8_SequentialReader == []C8_FlagFollowsEvents /\ [][C8_ReturnStep]_vars

\* the scenario has run: payload at start, and, after one timer fire, the
\* payload again on a blocking session
C8_Witness ==
  /\ nMarkReady = 2
  /\ nPayload = 2
  /\ sinceFire = 1
  /\ mode[Solo] = "blocking"
  /\ pc[Solo] = "idle"
  /\ result[Solo] = PayloadLen

\* what one reader's thread holds: the session and the call under way on it
ReaderState(r) ==
  <<mode[r], pc[r], result[r], sigp[r], tstate[r], op[r], seen[r], fast[r],
    obs[r]>>

\* this step is reader r opening or closing its session
OpensOrCloses(r) == mode'[r] # mode[r]

\* C11: a chardev_open or chardev_rel leaves the flag, the timer, the wait
\* queue, the module and every other reader's session and read as they
\* were, and does not start or end a call on its own session.
C11_OpenCloseStep ==
  \A r \in Readers :
    OpensOrCloses(r)
      => /\ UNCHANGED <<devVars, modVars, histVars>>
         /\ \A q \in Readers \ {r} : ReaderState(q)' = ReaderState(q)
         /\ pc[r] = "idle" /\ pc'[r] = "idle"

C11_OpenCloseFrame == [][C11_OpenCloseStep]_vars

\* two sessions are open at once, one of them asleep in a read, the other
\* freshly opened or with no call made yet
C11_Witness ==
  \E r, q \in Readers :
    /\ r # q
    /\ mode[r] # "closed"
    /\ op[r] = "none"
    /\ Parked(q)
    /\ timerPending

\* this step is the wake_up_interruptible of timer_func
WakeStep == tfPc = "wake" /\ tfPc' = "idle"

\* C12: the wake-up of one timer fire takes at most one reader off the wait
\* queue.
C12_WakesAtMostOne ==
  [][WakeStep => Cardinality(queue \ queue') <= 1]_vars

\* C13: once chardev_exit has run del_timer, the timer is never on the
\* timer list again.
C13_NoRearmAfterCancel == exitPc # "idle" => ~timerPending

\* chardev_init has returned 0 and chardev_exit has not started
Live == initPc = "done" /\ exitPc = "idle"

\* C14: on a live device the timer is on the timer list or its callback is
\* running; every callback sets the flag ready and puts the timer back on
\* the list, whatever the reader is doing; and as long as the module is not
\* unloaded the callback runs again and again.
C14_ArmedOrFiring == Live => (timerPending \/ tfPc # "idle")

C14_FireStep ==
  Live =>
    /\ (tfPc = "set" /\ tfPc' # "set") => (counter' = 1 /\ tfPc' = "arm")
    /\ (tfPc = "arm" /\ tfPc' # "arm") => (timerPending' /\ tfPc' = "wake")

C14_FiresRecur == [](Live => <>(tfPc = "set" \/ exitPc # "idle"))

C14_ProducerAlwaysRearms ==
  /\ []C14_ArmedOrFiring
  /\ [][C14_FireStep]_vars
  /\ C14_FiresRecur

\* a fire has set the flag and re-armed the timer with no session open
C14_Witness ==
  /\ Live
  /\ tfPc = "wake"
  /\ timerPending
  /\ counter = 1
  /\ mode[Solo] = "closed"

\* the steps of the producer that store to the flag
ProducerSetStep ==
  \/ tfPc = "set" /\ tfPc' = "arm"
  \/ initPc = "set_counter" /\ initPc' = "add_timer"

\* this step is reader r returning from a read with an error
ReturnsError(r) == Returns(r) /\ result'[r] \in {-EAGAIN, -EFAULT}

\* C15: the flag is 0 or 1; it goes from 0 to 1 only in a store of the
\* producer, from 1 to 0 only in a read that returns 4; a read that returns
\* -EAGAIN or -EFAULT, a write, an ioctl, an open and a close leave it as it
\* is.
C15_FlagRange == counter \in {0, 1}

C15_FlagStep ==
  /\ (counter = 0 /\ counter' = 1) => ProducerSetStep
  /\ (counter = 1 /\ counter' = 0)
       => \E r \in Readers : ReturnsPayload(r) /\ result'[r] = PayloadLen
  /\ \A r \in Readers :
       \/ ReturnsError(r)
       \/ CallDone(r, "write")
       \/ CallDone(r, "ioctl")
       \/ OpensOrCloses(r)
       => counter' = counter

C15_FlagTransitions == []C15_FlagRange /\ [][C15_FlagStep]_vars

\* a read has failed on a fault while the flag was, and stays, ready
C15_Witness ==
  \E r \in Readers :
    /\ op[r] = "read"
    /\ pc[r] = "idle"
    /\ result[r] = -EFAULT
    /\ counter = 1
    /\ initPc = "done"

\* C16: a timer fire leaves the flag at 1 whatever it was, so fires with no
\* read between them do not add up: of the single reader's reads after them
\* one returns the payload, after which the flag is empty and a read that
\* finds it so returns -EAGAIN on a non-blocking session and does not return
\* on a blocking one.
C16_FireStep ==
  (tfPc = "set" /\ tfPc' = "arm")
    => (counter' = 1 /\ sinceFire' = 0 /\ nPayload' = nPayload)

C16_OnePayloadPerBatch ==
  /\ sinceFire <= 1
  /\ sinceFire = 1 => counter = 0
  /\ (nMarkReady >= 1 /\ sinceFire = 0) => counter = 1

C16_ReadyReturnStep ==
  (Returns(Solo) /\ seen[Solo] = 1 /\ result'[Solo] # -EFAULT)
    => (result'[Solo] = PayloadLen /\ counter' = 0)

C16_EmptyReturnStep ==
  (Returns(Solo) /\ seen[Solo] = 0)
    => (mode[Solo] = "nonblock" /\ result'[Solo] = -EAGAIN /\ counter' = counter)

C16_MarkReadyIdempotent ==
  /\ []C16_OnePayloadPerBatch
  /\ [][C16_FireStep]_vars
  /\ [][C16_ReadyReturnStep]_vars
  /\ [][C16_EmptyReturnStep]_vars

\* after the set at start and two timer fires with no payload taken, one
\* read has returned the payload and the next, non-blocking, -EAGAIN
C16_Witness ==
  /\ nMarkReady = 3
  /\ nPayload = 1
  /\ sinceFire = 1
  /\ counter = 0
  /\ mode[Solo] = "nonblock"
  /\ pc[Solo] = "idle"
  /\ result[Solo] = -EAGAIN

\* C17: a read that returns the payload after a timer fire has set the flag
\* between its readiness check and its clear leaves the flag ready.
C17_LateFireSurvives ==
  [][(ReturnsPayload(Solo) /\ ~obs[Solo]) => counter' = 1]_vars

\* the resources chardev_init acquires, in the order it acquires them
AcqOrder == <<"d", "region", "class", "device", "cdev">>

\* the resources acquired by the first n acquisitions
AcqPrefix(n) == {AcqOrder[i] : i \in 1..n}

\* C18: while chardev_init runs, what the module holds is what the first n
\* acquisitions acquired, for some n, so that the unwinding gives up the
\* resources last acquired first; when chardev_init has failed it holds
\* nothing, has returned a negative value, the timer is neither armed nor
\* running, and no session is or can be opened.
C18_HeldIsPrefix ==
  exitPc = "idle" => \E n \in 0..Len(AcqOrder) : held = AcqPrefix(n)

C18_FailedIsClean ==
  initPc = "failed"
    => /\ held = {}
       /\ initRet < 0
       /\ ~timerPending /\ tfPc = "idle"
       /\ counter = 0
       /\ \A r \in Readers : mode[r] = "closed" /\ ~ENABLED chardev_open(r)

C18_UnwindStep ==
  (initPc \in {"err4", "err3", "err2", "err1"} /\ initPc' # initPc)
    => /\ Cardinality(held) = Cardinality(held') + 1
       /\ held' \subseteq held

C18_FailedStartUnwinds ==
  /\ []C18_HeldIsPrefix
  /\ []C18_FailedIsClean
  /\ [][C18_UnwindStep]_vars

\* cdev_add failed after everything before it had been acquired, and the
\* unwinding has run from err4 to the end
C18_Witness ==
  /\ initPc = "failed"
  /\ d_device = "valid"
  /\ chardev_class = "valid"
  /\ held = {}
  /\ initRet = -ENOMEM

\* C19: when chardev_exit has returned the module holds nothing of what
\* chardev_init acquired, and the guards of its release steps are all
\* false, so that a second run would release nothing.
C19_ExitCompleteIdempotent ==
  exitPc = "done"
    => /\ held = {}
       /\ ExitSteps(d_status, d_device, chardev_major, chardev_class) = {}

\* a chardev_read is under way on reader r's session
InRead(r) == op[r] = "read" /\ pc[r] # "idle"

\* C20: no chardev_read runs between cdev_add and the return of
\* chardev_init, that is, before the flag is set and the timer armed.
C20_NoReadBeforeFlagInit ==
  initPc \in {"set_counter", "add_timer"} => \A r \in Readers : ~InRead(r)

====
